---- MODULE Spec2Model ----
(***************************************************************************)
(* A model of models/base_model.py (class BaseModel): checkpoint           *)
(* persistence (save_networks / load_networks), setup, the optimizer and   *)
(* scheduler coordination (update_learning_rate) and loss / visual         *)
(* reporting.  Tensors are abstracted to small integers, a network to its  *)
(* state dict (parameter key -> value), the checkpoint directory to a      *)
(* function from path strings to file contents.                            *)
(***************************************************************************)
EXTENDS Integers, Sequences, FiniteSets, TLC

(* ---------------------------------------------------------------------- *)
(* Bounds of the model                                                     *)
(* ---------------------------------------------------------------------- *)
MaxVal == 1        \* parameter / optimizer-state values range over 0..MaxVal
MaxOpts == 2       \* at most this many optimizers in self.optimizers
MaxCalls == 3      \* at most this many method calls over one directory
MaxRuns == 2       \* at most this many BaseModel instances over one directory
MaxSteps == 2      \* at most this many scheduler steps per scheduler

(* ---------------------------------------------------------------------- *)
(* Universes the inputs are drawn from                                     *)
(* ---------------------------------------------------------------------- *)
Str(s) == [tag |-> "str", val |-> s]
NonStr == [tag |-> "other", val |-> "0"]
IsStr(e) == e.tag = "str"

NetNames == {"G", "D"}
Archs == {{"w", "b"}, {"w", "c"}}       \* parameter keys netG may have
ParamKeys(n, kg) == IF n = "G" THEN kg ELSE {"w"}
Values == 0..MaxVal

NameLists ==
    {<<>>, <<Str("G")>>, <<Str("G"), Str("D")>>, <<Str("D"), NonStr, Str("G")>>}

Labels == {"latest", "iter_1"}
GpuIdsSet == {<<>>, <<1, 0>>}
LrPolicies == {"step", "plateau"}

EmptyDict == [k \in {} |-> 0]
None == <<>>
Some(v) == <<v>>
Infos == {None, Some([lr_policy |-> "plateau", niter |-> "5"])}

UNSET == [set |-> FALSE, val |-> <<>>]
Set(v) == [set |-> TRUE, val |-> v]

VARIABLES
    cuda,              \* torch.cuda.is_available() on this machine
    opt,               \* self.opt, attribute name -> value
    gpu_ids,           \* self.gpu_ids
    isTrain,           \* self.isTrain
    save_dir,          \* self.save_dir
    device,            \* self.device
    model_names,       \* self.model_names
    load_model_names,  \* self.load_model_names (set by the subclass, or not)
    loss_names,        \* self.loss_names
    visual_names,      \* self.visual_names
    attrs,             \* self.loss_<n> and self.<n> attributes
    nets,              \* self.net<name>: [wrapped, dev, params]
    optimizers,        \* self.optimizers, each [lr, state]
    schedulers,        \* self.schedulers (unset until setup on a training model)
    metric,            \* self.metric
    files,             \* the file system: path -> content
    last,              \* the last call: name, arguments, outcome, call trace
    snap,              \* label -> what save_networks last saw under that label
    setupRan,          \* setup was called on this instance
    calls,             \* number of operations so far
    runs               \* number of instances constructed so far

vars == <<cuda, opt, gpu_ids, isTrain, save_dir, device, model_names,
          load_model_names, loss_names, visual_names, attrs, nets, optimizers,
          schedulers, metric, files, last, snap, setupRan, calls, runs>>

(* ---------------------------------------------------------------------- *)
(* Helpers: dictionaries, paths, formatting                                *)
(* ---------------------------------------------------------------------- *)
\* os.path.join(a, b) for a relative b and an a without trailing separator
PathJoin(a, b) == a \o "/" \o b

\* dict.update / setattr in a loop: entries of d override those of base
DictUpdate(base, d) ==
    [k \in (DOMAIN base) \cup (DOMAIN d) |-> IF k \in DOMAIN d THEN d[k] ELSE base[k]]

\* torch.save(obj, path)
TorchSave(fs, path, obj) ==
    [p \in (DOMAIN fs) \cup {path} |-> IF p = path THEN obj ELSE fs[p]]

\* a file name without the '_net_' infix
NetFilename_NoNet(epoch, name) == epoch \o "_" \o name \o ".pth"

\* '%s_net_%s.pth' % (epoch, name)
NetFilename(epoch, name) == epoch \o "_net_" \o name \o ".pth"
\* '%s_opts.pth' % epoch
OptsFilename(epoch) == epoch \o "_opts.pth"
\* '%s.info' % epoch
InfoFilename(epoch) == epoch \o ".info"

\* torch.device('cuda:{}'.format(gpu_ids[0])) if gpu_ids else torch.device('cpu')
DeviceOf(g) == IF Len(g) > 0 THEN "cuda:" \o ToString(g[1]) ELSE "cpu"

\* net.state_dict(): a DataParallel wrapper prefixes every key with 'module.'
Prefixed(p) ==
    [k2 \in {"module." \o k : k \in DOMAIN p} |->
        p[CHOOSE k \in DOMAIN p : "module." \o k = k2]]
StateDict(net) == IF net.wrapped THEN Prefixed(net.params) ELSE net.params


\* the string entries of a name list, as a set of names
StrNames(names) == {names[i].val : i \in {j \in 1..Len(names) : IsStr(names[j])}}

\* the record kept of the last call
Call(op, args, outcome, failedAt, trace, written, result) ==
    [op |-> op, args |-> args, outcome |-> outcome, failedAt |-> failedAt,
     trace |-> trace, written |-> written, result |-> result]
NoArgs == [none |-> TRUE]

(* ---------------------------------------------------------------------- *)
(* __init__                                                                *)
(* ---------------------------------------------------------------------- *)
\* self.save_dir = os.path.join(opt.checkpoints_dir, opt.name)
CheckpointsDir == "./checkpoints"
ExperimentName == "exp"
SaveDir == PathJoin(CheckpointsDir, ExperimentName)

\* the networks a subclass builds: on the GPU inside DataParallel when
\* gpu_ids is non-empty and CUDA is available, on the CPU otherwise (wrapped
\* or not, as the subclass chooses); every parameter starts at the value the
\* initialisation of this instance drew
FreshNets(g, c, w, kg, seed) ==
    [n \in NetNames |->
        [wrapped |-> w,
         dev |-> IF Len(g) > 0 /\ c THEN DeviceOf(g) ELSE "cpu",
         params |-> [k \in ParamKeys(n, kg) |-> seed]]]

FreshOptimizers(n) == [j \in 1..n |-> [lr |-> MaxVal, state |-> 0]]

\* BaseModel.__init__(opt) followed by the subclass constructor, which fills
\* model_names, load_model_names, optimizers and creates the networks
Construct(train, g, w, kg, mn, lmn, nopt, pol) ==
    /\ (Len(g) > 0 /\ cuda) => w
    /\ opt' = [lr_policy |-> pol]
    /\ gpu_ids' = g
    /\ isTrain' = train
    /\ save_dir' = SaveDir
    /\ device' = DeviceOf(g)
    /\ model_names' = mn
    /\ load_model_names' = lmn
    /\ nets' = FreshNets(g, cuda, w, kg, MaxVal)
    /\ optimizers' = FreshOptimizers(nopt)
    /\ schedulers' = UNSET
    /\ setupRan' = FALSE
    /\ metric' = 0

(* ---------------------------------------------------------------------- *)
(* save_networks                                                           *)
(* ---------------------------------------------------------------------- *)
\* line 109: the branch that saves net.module and moves the net back to CUDA
OnCuda == Len(gpu_ids) > 0 /\ cuda

\* lines 110 / 113: what torch.save receives for one network
SavedStateDict(net) == IF OnCuda THEN net.params ELSE StateDict(net)

\* a save that leaves the network on the CPU
DeviceAfterSave_Cpu(net) == "cpu"

\* lines 110-113: where the network is after it was saved
DeviceAfterSave(net) == IF OnCuda THEN "cuda:" \o ToString(gpu_ids[1]) ELSE "cpu"

\* lines 103-113: the loop over self.model_names
RECURSIVE SaveLoop(_, _, _, _, _)
SaveLoop(i, fs, ns, wr, epoch) ==
    IF i > Len(model_names) THEN [files |-> fs, nets |-> ns, written |-> wr]
    ELSE IF ~IsStr(model_names[i]) THEN SaveLoop(i + 1, fs, ns, wr, epoch)
    ELSE LET name == model_names[i].val
             save_path == PathJoin(save_dir, NetFilename(epoch, name))
             net == ns[name]
         IN  SaveLoop(i + 1,
                      TorchSave(fs, save_path, SavedStateDict(net)),
                      [ns EXCEPT ![name].dev = DeviceAfterSave(net)],
                      Append(wr, save_path),
                      epoch)

\* lines 114-116: opts = [opt.state_dict() for opt in self.optimizers]
OptimizerStates == optimizers

\* lines 102-120
SaveResult(epoch, info) ==
    LET l == SaveLoop(1, files, nets, <<>>, epoch)
        opts_path == PathJoin(save_dir, OptsFilename(epoch))
        fs1 == TorchSave(l.files, opts_path, OptimizerStates)
        wr1 == Append(l.written, opts_path)
        info_path == PathJoin(save_dir, InfoFilename(epoch))
    IN  IF info # None
        THEN [files |-> TorchSave(fs1, info_path, info[1]), nets |-> l.nets,
              written |-> Append(wr1, info_path)]
        ELSE [files |-> fs1, nets |-> l.nets, written |-> wr1]

\* what the networks and optimizers were when save_networks(epoch) ran
Snapshot ==
    [names |-> StrNames(model_names),
     params |-> [n \in NetNames |-> nets[n].params],
     plain |-> [n \in NetNames |-> OnCuda \/ ~nets[n].wrapped],
     optimizers |-> optimizers]

SaveNetworks(epoch, info) ==
    /\ calls < MaxCalls
    /\ LET r == SaveResult(epoch, info)
       IN  /\ files' = r.files
           /\ nets' = r.nets
           /\ last' = Call("save_networks", [epoch |-> epoch, info |-> info], "ok", 0,
                           <<>>, r.written, <<>>)
    /\ snap' = [snap EXCEPT ![epoch] = Some(Snapshot)]
    /\ calls' = calls + 1
    /\ UNCHANGED <<cuda, opt, gpu_ids, isTrain, save_dir, device, model_names,
                   load_model_names, loss_names, visual_names, attrs,
                   optimizers, schedulers, metric, setupRan, runs>>

(* ---------------------------------------------------------------------- *)
(* load_networks                                                           *)
(* ---------------------------------------------------------------------- *)
\* a load that leaves the optimizers alone
LoadOptimizers_Skip(saved_opts, opts) == opts

\* lines 138-139: for sopt, opt in zip(saved_opts, self.optimizers)
LoadOptimizers(saved_opts, opts) ==
    [j \in 1..Len(opts) |-> IF j <= Len(saved_opts) THEN saved_opts[j] ELSE opts[j]]

\* a load that replaces the state dict by the file
LoadPartial_Strict(model_dict, state_dict) == state_dict

\* lines 161-164: load partial weights into the (unwrapped) module
LoadPartial(model_dict, state_dict) ==
    LET pretrained_dict ==
            [k \in {x \in DOMAIN state_dict : x \in DOMAIN model_dict} |-> state_dict[k]]
    IN  [k \in DOMAIN model_dict |->
            IF k \in DOMAIN pretrained_dict THEN pretrained_dict[k] ELSE model_dict[k]]

\* lines 142-164: the loop over self.load_model_names; failedAt is the index
\* of the entry whose file could not be opened, 0 when every entry was loaded
RECURSIVE LoadLoop(_, _, _, _)
LoadLoop(names, i, ns, epoch) ==
    IF i > Len(names) THEN [nets |-> ns, failedAt |-> 0]
    ELSE IF ~IsStr(names[i]) THEN LoadLoop(names, i + 1, ns, epoch)
    ELSE LET name == names[i].val
             load_path == PathJoin(save_dir, NetFilename(epoch, name))
         IN  IF load_path \notin DOMAIN files
             THEN [nets |-> ns, failedAt |-> i]
             ELSE LoadLoop(names, i + 1,
                           [ns EXCEPT ![name].params =
                                LoadPartial(ns[name].params, files[load_path])],
                           epoch)

\* a load that ignores the options file
LoadInfo_Skip(o, epoch) == o

\* lines 166-170
LoadInfo(o, epoch) ==
    LET info_path == PathJoin(save_dir, InfoFilename(epoch))
    IN  IF info_path \in DOMAIN files THEN DictUpdate(o, files[info_path]) ELSE o

\* lines 135-170
LoadResult(epoch) ==
    LET opts_path == PathJoin(save_dir, OptsFilename(epoch))
    IN  IF opts_path \notin DOMAIN files
        THEN [optimizers |-> optimizers, nets |-> nets, opt |-> opt,
              outcome |-> "FileNotFoundError", failedAt |-> 0]
        ELSE LET os == LoadOptimizers(files[opts_path], optimizers)
             IN  IF ~load_model_names.set
                 THEN [optimizers |-> os, nets |-> nets, opt |-> opt,
                       outcome |-> "AttributeError", failedAt |-> 0]
                 ELSE LET l == LoadLoop(load_model_names.val, 1, nets, epoch)
                      IN  IF l.failedAt > 0
                          THEN [optimizers |-> os, nets |-> l.nets, opt |-> opt,
                                outcome |-> "FileNotFoundError",
                                failedAt |-> l.failedAt]
                          ELSE [optimizers |-> os, nets |-> l.nets,
                                opt |-> LoadInfo(opt, epoch),
                                outcome |-> "ok", failedAt |-> 0]

LoadNetworks(epoch) ==
    /\ calls < MaxCalls
    /\ LET r == LoadResult(epoch)
       IN  /\ optimizers' = r.optimizers
           /\ nets' = r.nets
           /\ opt' = r.opt
           /\ last' = Call("load_networks", [epoch |-> epoch], r.outcome, r.failedAt,
                           <<>>, <<>>,
                           [changed |-> r.nets # nets \/ r.optimizers # optimizers])
    /\ calls' = calls + 1
    /\ UNCHANGED <<cuda, gpu_ids, isTrain, save_dir, device, model_names,
                   load_model_names, loss_names, visual_names, attrs,
                   schedulers, metric, files, snap, setupRan, runs>>

(* ---------------------------------------------------------------------- *)
(* setup                                                                   *)
(* ---------------------------------------------------------------------- *)
\* the options object handed to setup
SetupOpts == [continue_train : BOOLEAN, load_iter : {0, 1}, epoch : {"latest"}]

\* networks.get_scheduler(optimizer, opt): a scheduler bound to the optimizer
\* at position j of self.optimizers
GetScheduler(j, o) ==
    [optimizer |-> j, last_epoch |-> 0, arg |-> None]

\* line 41
MakeSchedulers(o) == [j \in 1..Len(optimizers) |-> GetScheduler(j, o)]

\* line 42
ShouldLoad(o) == ~isTrain \/ o.continue_train

\* a setup that always loads opt.epoch
LoadSuffix_NoIter(o) == o.epoch

\* line 43: 'iter_%d' % opt.load_iter if opt.load_iter > 0 else opt.epoch
LoadSuffix(o) ==
    IF o.load_iter > 0 THEN "iter_" \o ToString(o.load_iter) ELSE o.epoch

\* lines 39-45, with the calls setup makes recorded in order
Setup(o) ==
    /\ calls < MaxCalls
    /\ LET t1 == IF isTrain THEN <<[call |-> "get_scheduler", arg |-> ""]>> ELSE <<>>
           r == LoadResult(LoadSuffix(o))
           t2 == Append(t1, [call |-> "load_networks", arg |-> LoadSuffix(o)])
           t3 == [call |-> "print_networks", arg |-> ""]
       IN  /\ schedulers' = IF isTrain THEN Set(MakeSchedulers(o)) ELSE schedulers
           /\ IF ShouldLoad(o)
              THEN /\ optimizers' = r.optimizers
                   /\ nets' = r.nets
                   /\ opt' = r.opt
                   /\ last' = Call("setup", o, r.outcome, r.failedAt,
                                   IF r.outcome = "ok" THEN Append(t2, t3) ELSE t2,
                                   <<>>, <<>>)
              ELSE /\ UNCHANGED <<optimizers, nets, opt>>
                   /\ last' = Call("setup", o, "ok", 0, Append(t1, t3),
                                   <<>>, <<>>)
    /\ calls' = calls + 1
    /\ UNCHANGED <<cuda, gpu_ids, isTrain, save_dir, device, model_names,
                   load_model_names, loss_names, visual_names, attrs, metric,
                   files, snap, runs>>
    /\ setupRan' = TRUE

(* ---------------------------------------------------------------------- *)
(* update_learning_rate                                                    *)
(* ---------------------------------------------------------------------- *)
\* the learning rate a scheduler step leaves in its optimizer
DecayedLr(lr) == IF lr > 0 THEN lr - 1 ELSE 0

\* a step that never passes the metric
StepArg_Never == None

\* lines 74-77: scheduler.step(self.metric) for 'plateau', scheduler.step() otherwise
StepArg == IF opt.lr_policy = "plateau" THEN Some(metric) ELSE None

\* lines 73-77 applied to one scheduler
StepScheduler(s) == [s EXCEPT !.last_epoch = s.last_epoch + 1, !.arg = StepArg]

\* the optimizers after every scheduler of the list stepped once
SteppedOptimizers(scheds) ==
    [j \in 1..Len(optimizers) |->
        IF \E i \in 1..Len(scheds) : scheds[i].optimizer = j
        THEN [optimizers[j] EXCEPT !.lr = DecayedLr(optimizers[j].lr)]
        ELSE optimizers[j]]

\* an update that does not read self.optimizers[0]
UpdateOutcome_NoIndex == IF ~schedulers.set THEN "AttributeError" ELSE "ok"

\* how the call ends: the loop needs self.schedulers (line 73), the report
\* of the learning rate needs self.optimizers[0] (line 79)
UpdateOutcome ==
    IF ~schedulers.set THEN "AttributeError"
    ELSE IF Len(optimizers) = 0 THEN "IndexError" ELSE "ok"

\* lines 72-80
UpdateLearningRate ==
    /\ calls < MaxCalls
    /\ schedulers.set =>
          \A i \in 1..Len(schedulers.val) : schedulers.val[i].last_epoch < MaxSteps
    /\ IF ~schedulers.set
       THEN /\ UNCHANGED <<schedulers, optimizers>>
            /\ last' = Call("update_learning_rate", NoArgs, UpdateOutcome, 0,
                            <<>>, <<>>, <<>>)
       ELSE /\ schedulers' = Set([i \in 1..Len(schedulers.val) |->
                                    StepScheduler(schedulers.val[i])])
            /\ optimizers' = SteppedOptimizers(schedulers.val)
            /\ last' = Call("update_learning_rate", NoArgs, UpdateOutcome, 0,
                            <<>>, <<>>, <<>>)
    /\ calls' = calls + 1
    /\ UNCHANGED <<cuda, opt, gpu_ids, isTrain, save_dir, device, model_names,
                   load_model_names, loss_names, visual_names, attrs, nets,
                   metric, files, snap, setupRan, runs>>

(* ---------------------------------------------------------------------- *)
(* optimize_parameters (abstract): what a subclass's training step changes *)
(* ---------------------------------------------------------------------- *)
OptimizeParameters ==
    /\ calls < MaxCalls
    /\ \/ \E n \in NetNames : \E k \in DOMAIN nets[n].params, v \in Values :
             /\ nets[n].params[k] # v
             /\ nets' = [nets EXCEPT ![n].params[k] = v]
             /\ UNCHANGED optimizers
       \/ \E j \in 1..Len(optimizers), v \in Values :
             /\ optimizers[j].state # v
             /\ optimizers' = [optimizers EXCEPT ![j].state = v]
             /\ UNCHANGED nets
    /\ last' = Call("optimize_parameters", NoArgs, "ok", 0, <<>>, <<>>, <<>>)
    /\ calls' = calls + 1
    /\ UNCHANGED <<cuda, opt, gpu_ids, isTrain, save_dir, device, model_names,
                   load_model_names, loss_names, visual_names, attrs,
                   schedulers, metric, files, snap, setupRan, runs>>

\* the subclass stores its validation metric in self.metric
ComputeMetric ==
    /\ calls < MaxCalls
    /\ \E m \in Values : metric # m /\ metric' = m
    /\ last' = Call("compute_metric", NoArgs, "ok", 0, <<>>, <<>>, <<>>)
    /\ calls' = calls + 1
    /\ UNCHANGED <<cuda, opt, gpu_ids, isTrain, save_dir, device, model_names,
                   load_model_names, loss_names, visual_names, attrs, nets,
                   optimizers, schedulers, files, snap, setupRan, runs>>

(* ---------------------------------------------------------------------- *)
(* Specification of the checkpoint life cycle                              *)
(* ---------------------------------------------------------------------- *)
LoadNameLists == {UNSET} \cup {Set(l) : l \in NameLists \ {<<>>}}

\* the state right after construction, unprimed
Constructed(train, g, w, kg, mn, lmn, nopt, pol) ==
    /\ (Len(g) > 0 /\ cuda) => w
    /\ opt = [lr_policy |-> pol]
    /\ gpu_ids = g
    /\ isTrain = train
    /\ save_dir = SaveDir
    /\ device = DeviceOf(g)
    /\ model_names = mn
    /\ load_model_names = lmn
    /\ nets = FreshNets(g, cuda, w, kg, 0)
    /\ optimizers = FreshOptimizers(nopt)
    /\ schedulers = UNSET
    /\ setupRan = FALSE
    /\ metric = 0

NoReporting ==
    /\ loss_names = <<>>
    /\ visual_names = <<>>
    /\ attrs = EmptyDict

EmptyDirectory ==
    /\ files = EmptyDict
    /\ snap = [l \in Labels |-> None]

FirstCall ==
    /\ last = Call("__init__", NoArgs, "ok", 0, <<>>, <<>>, <<>>)
    /\ calls = 0
    /\ runs = 1

Init ==
    /\ cuda \in BOOLEAN
    /\ \E w \in BOOLEAN, mn \in {<<Str("G")>>, <<Str("D"), NonStr, Str("G")>>},
          lmn \in LoadNameLists, nopt \in 0..MaxOpts :
          Constructed(TRUE, IF cuda THEN <<1, 0>> ELSE <<>>, w, {"w", "b"}, mn,
                      lmn, nopt, "step")
    /\ NoReporting
    /\ EmptyDirectory
    /\ FirstCall

\* a new model instance is constructed over the same checkpoint directory,
\* with the same device options and network names
Restart ==
    /\ calls < MaxCalls
    /\ runs < MaxRuns
    /\ \E kg \in Archs, lmn \in LoadNameLists, nopt \in 0..MaxOpts :
          Construct(isTrain, gpu_ids, nets["G"].wrapped, kg, model_names, lmn,
                    nopt, opt.lr_policy)
    /\ last' = Call("__init__", NoArgs, "ok", 0, <<>>, <<>>, <<>>)
    /\ calls' = calls + 1
    /\ runs' = runs + 1
    /\ UNCHANGED <<cuda, loss_names, visual_names, attrs, files, snap>>

Next ==
    \/ \E e \in Labels, i \in Infos : SaveNetworks(e, i)
    \/ \E e \in Labels : LoadNetworks(e)
    \/ OptimizeParameters
    \/ Restart

Spec == Init /\ [][Next]_vars

(* ---------------------------------------------------------------------- *)
(* Specification of saving alone, over every device configuration          *)
(* ---------------------------------------------------------------------- *)
InitSave ==
    /\ cuda \in BOOLEAN
    /\ \E g \in GpuIdsSet, w \in BOOLEAN, mn \in NameLists, nopt \in 0..MaxOpts :
          Constructed(TRUE, g, w, {"w", "b"}, mn, UNSET, nopt, "step")
    /\ NoReporting
    /\ EmptyDirectory
    /\ FirstCall

NextSave ==
    \/ \E e \in Labels, i \in Infos : SaveNetworks(e, i)
    \/ OptimizeParameters

SpecSave == InitSave /\ [][NextSave]_vars

(* ---------------------------------------------------------------------- *)
(* Specification of setup and the learning-rate schedule                   *)
(* ---------------------------------------------------------------------- *)
InitSetup ==
    /\ cuda = FALSE
    /\ \E train \in BOOLEAN, lmn \in {Set(<<Str("G")>>), Set(<<Str("G"), Str("D")>>)},
          nopt \in 0..MaxOpts, pol \in LrPolicies :
          Constructed(train, <<>>, FALSE, {"w", "b"}, <<Str("G")>>, lmn, nopt, pol)
    /\ NoReporting
    /\ EmptyDirectory
    /\ FirstCall

NextSetup ==
    \/ \E o \in SetupOpts : Setup(o)
    \/ UpdateLearningRate
    \/ ComputeMetric
    \/ \E e \in Labels, i \in Infos : SaveNetworks(e, i)

SpecSetup == InitSetup /\ [][NextSetup]_vars

(* ---------------------------------------------------------------------- *)
(* get_current_visuals / get_current_losses                                *)
(* ---------------------------------------------------------------------- *)
MaxNames == 2      \* loss_names and visual_names have at most this many entries

\* a mapping that appends on every assignment
OrderedDictSet_Append(d, k, v) == Append(d, [key |-> k, value |-> v])

\* an OrderedDict is a sequence of [key, value]; d[k] = v keeps the position
\* of a key that is already present
OrderedDictSet(d, k, v) ==
    IF \E i \in 1..Len(d) : d[i].key = k
    THEN [i \in 1..Len(d) |-> IF d[i].key = k THEN [key |-> k, value |-> v] ELSE d[i]]
    ELSE Append(d, [key |-> k, value |-> v])

\* float(x) of a scalar tensor or a number
Float(x) == [kind |-> "float", v |-> x.v]

\* lines 88-93
RECURSIVE VisualsLoop(_, _)
VisualsLoop(i, visual_ret) ==
    IF i > Len(visual_names) THEN visual_ret
    ELSE IF ~IsStr(visual_names[i]) THEN VisualsLoop(i + 1, visual_ret)
    ELSE LET name == visual_names[i].val
         IN  VisualsLoop(i + 1, OrderedDictSet(visual_ret, name, attrs[name]))

\* lines 95-100
RECURSIVE LossesLoop(_, _)
LossesLoop(i, errors_ret) ==
    IF i > Len(loss_names) THEN errors_ret
    ELSE IF ~IsStr(loss_names[i]) THEN LossesLoop(i + 1, errors_ret)
    ELSE LET name == loss_names[i].val
         IN  LossesLoop(i + 1, OrderedDictSet(errors_ret, "Loss_" \o name,
                                              Float(attrs["loss_" \o name])))

ReportFrame ==
    UNCHANGED <<cuda, opt, gpu_ids, isTrain, save_dir, device, model_names,
                load_model_names, loss_names, visual_names, nets, optimizers,
                schedulers, metric, files, snap, setupRan, runs>>

GetCurrentVisuals ==
    /\ calls < MaxCalls
    /\ last' = Call("get_current_visuals", NoArgs, "ok", 0, <<>>, <<>>,
                    VisualsLoop(1, <<>>))
    /\ calls' = calls + 1
    /\ UNCHANGED attrs
    /\ ReportFrame

GetCurrentLosses ==
    /\ calls < MaxCalls
    /\ last' = Call("get_current_losses", NoArgs, "ok", 0, <<>>, <<>>,
                    LossesLoop(1, <<>>))
    /\ calls' = calls + 1
    /\ UNCHANGED attrs
    /\ ReportFrame

\* forward (abstract): the subclass refreshes a loss or a visual
Forward ==
    /\ calls < MaxCalls
    /\ \E a \in DOMAIN attrs, v \in Values :
          /\ attrs[a].v # v
          /\ attrs' = [attrs EXCEPT ![a].v = v]
    /\ last' = Call("forward", NoArgs, "ok", 0, <<>>, <<>>, <<>>)
    /\ calls' = calls + 1
    /\ ReportFrame

SeqsUpTo(S, n) == UNION {[1..m -> S] : m \in 0..n}

LossEntries == {Str("G"), Str("D"), NonStr}
VisualEntries == {Str("real"), Str("fake"), NonStr}

InitReport ==
    /\ cuda = FALSE
    /\ Constructed(TRUE, <<>>, FALSE, {"w", "b"}, <<>>, UNSET, 0, "step")
    /\ loss_names \in SeqsUpTo(LossEntries, MaxNames)
    /\ visual_names \in SeqsUpTo(VisualEntries, MaxNames)
    /\ attrs = [loss_G |-> [kind |-> "tensor", v |-> 0],
                loss_D |-> [kind |-> "int", v |-> 0],
                real |-> [kind |-> "tensor", v |-> 0],
                fake |-> [kind |-> "tensor", v |-> 0]]
    /\ EmptyDirectory
    /\ FirstCall

NextReport ==
    \/ GetCurrentVisuals
    \/ GetCurrentLosses
    \/ Forward

SpecReport == InitReport /\ [][NextReport]_vars

(* ---------------------------------------------------------------------- *)
(* Properties                                                              *)
(* ---------------------------------------------------------------------- *)
Range(q) == {q[i] : i \in 1..Len(q)}
Step(op) == calls' = calls + 1 /\ last'.op = op
CallsOf(t, c) == {i \in 1..Len(t) : t[i].call = c}

\* the part of claim C1 that concerns which calls setup makes, with what label
C1_Calls ==
    LET t == last.trace
        o == last.args
    IN  /\ Cardinality(CallsOf(t, "load_networks")) =
              IF ~isTrain \/ o.continue_train THEN 1 ELSE 0
        /\ \A i \in CallsOf(t, "load_networks") :
              t[i].arg = IF o.load_iter > 0 THEN "iter_" \o ToString(o.load_iter)
                         ELSE o.epoch
        /\ \A i \in CallsOf(t, "get_scheduler"), j \in CallsOf(t, "load_networks") :
              i < j

\* C1 as stated: setup calls load_networks exactly once when isTrain is false
\* or continue_train is true and never otherwise, with the label
\* 'iter_<load_iter>' when load_iter > 0 and opt.epoch otherwise, and in every
\* case print_networks is the last call setup makes.
C1_Original ==
    last.op = "setup" =>
        /\ C1_Calls
        /\ Len(last.trace) > 0
        /\ last.trace[Len(last.trace)].call = "print_networks"

\* C1 amended: the calls and the label are as stated; print_networks runs last
\* whenever load_networks does not raise, and when load_networks raises setup
\* stops there and print_networks does not run.
C1_Amended ==
    last.op = "setup" =>
        /\ C1_Calls
        /\ Len(last.trace) > 0
        /\ last.outcome = "ok" =>
              /\ last.trace[Len(last.trace)].call = "print_networks"
              /\ Cardinality(CallsOf(last.trace, "print_networks")) = 1
        /\ last.outcome # "ok" =>
              /\ last.trace[Len(last.trace)].call = "load_networks"
              /\ CallsOf(last.trace, "print_networks") = {}

C1_Witness ==
    /\ last.op = "setup"
    /\ last.outcome = "ok"
    /\ isTrain
    /\ last.args.continue_train
    /\ last.args.load_iter = 1
    /\ Len(last.trace) = 3

\* C3: save_networks(epoch, info) writes exactly one '<epoch>_net_<name>.pth'
\* per string entry of model_names, one '<epoch>_opts.pth' holding the
\* optimizer states in the order of self.optimizers, and '<epoch>.info' iff
\* info is not None, all directly under checkpoints_dir/name; no other file
\* is written or changed.
C3_Expected(dir, e, info, names) ==
    {dir \o "/" \o e \o "_net_" \o n \o ".pth" : n \in StrNames(names)}
        \cup {dir \o "/" \o e \o "_opts.pth"}
        \cup (IF info # None THEN {dir \o "/" \o e \o ".info"} ELSE {})

C3_SaveWritesExactly ==
    [][Step("save_networks") =>
        LET e == last'.args.epoch
            info == last'.args.info
            dir == "./checkpoints/exp"
            expected == C3_Expected(dir, e, info, model_names)
        IN  /\ save_dir = dir
            /\ Range(last'.written) = expected
            /\ DOMAIN files' = (DOMAIN files) \cup expected
            /\ \A p \in (DOMAIN files) \ expected : files'[p] = files[p]
            /\ files'[dir \o "/" \o e \o "_opts.pth"] = optimizers
            /\ info # None => files'[dir \o "/" \o e \o ".info"] = info[1]
    ]_vars

C3_Witness ==
    /\ last.op = "save_networks"
    /\ last.args.info # None
    /\ model_names = <<Str("D"), NonStr, Str("G")>>
    /\ Len(optimizers) = 2
    /\ optimizers[1] # optimizers[2]
    /\ Cardinality(DOMAIN files) = 4

\* C6 as stated: after save_networks every saved network is on the device
\* chosen at construction (cuda:<gpu_ids[0]> when gpu_ids is non-empty, cpu
\* otherwise), for every gpu_ids and CUDA availability.
C6_Original ==
    last.op = "save_networks" =>
        \A n \in StrNames(model_names) : nets[n].dev = device

\* C6 amended: after save_networks every saved network is on cuda:<gpu_ids[0]>
\* when gpu_ids is non-empty and CUDA is available and on the cpu otherwise;
\* parameter values and optimizer states are unchanged by save_networks.
C6_Amended ==
    [][Step("save_networks") =>
        /\ \A n \in StrNames(model_names) :
              nets'[n].dev = IF Len(gpu_ids) > 0 /\ cuda
                             THEN "cuda:" \o ToString(gpu_ids[1]) ELSE "cpu"
        /\ \A n \in NetNames : nets'[n].params = nets[n].params
        /\ \A n \in NetNames : nets'[n].wrapped = nets[n].wrapped
        /\ optimizers' = optimizers
    ]_vars

C6_Witness ==
    /\ last.op = "save_networks"
    /\ Len(gpu_ids) > 0
    /\ cuda
    /\ StrNames(model_names) = {"G", "D"}
    /\ nets["G"].dev = "cuda:1"
    /\ nets["G"].params["w"] = 1

\* C4: right after setup on a training model self.schedulers has one
\* scheduler per optimizer, in order, each bound to its optimizer; every
\* later update_learning_rate steps each scheduler exactly once and passes
\* self.metric to the step iff self.opt.lr_policy is 'plateau'.
C4_Schedulers ==
    [][/\ (Step("setup") /\ isTrain) =>
              /\ schedulers'.set
              /\ Len(schedulers'.val) = Len(optimizers')
              /\ \A j \in 1..Len(optimizers') :
                    /\ schedulers'.val[j].optimizer = j
                    /\ schedulers'.val[j].last_epoch = 0
       /\ (Step("update_learning_rate") /\ schedulers.set) =>
              /\ schedulers'.set
              /\ Len(schedulers'.val) = Len(schedulers.val)
              /\ \A i \in 1..Len(schedulers.val) :
                    /\ schedulers'.val[i].optimizer = schedulers.val[i].optimizer
                    /\ schedulers'.val[i].last_epoch = schedulers.val[i].last_epoch + 1
                    /\ schedulers'.val[i].arg =
                          IF opt.lr_policy = "plateau" THEN <<metric>> ELSE <<>>
    ]_vars

C4_Witness ==
    /\ last.op = "update_learning_rate"
    /\ last.outcome = "ok"
    /\ Len(optimizers) = 2
    /\ schedulers.val[2].last_epoch = 1
    /\ schedulers.val[2].arg = <<1>>

\* C9: update_learning_rate succeeds only if setup ran before on a training
\* model with at least one optimizer; before setup, or after setup on a test
\* model, it fails for want of self.schedulers; whenever it fails no scheduler
\* was stepped and no learning rate changed.
C9_UpdateFails ==
    [][Step("update_learning_rate") =>
        /\ last'.outcome = "ok" => (setupRan /\ isTrain /\ Len(optimizers) > 0)
        /\ (~setupRan \/ ~isTrain) => last'.outcome = "AttributeError"
        /\ last'.outcome # "ok" =>
              /\ schedulers' = schedulers
              /\ optimizers' = optimizers
    ]_vars

C9_Witness ==
    /\ last.op = "update_learning_rate"
    /\ last.outcome = "AttributeError"
    /\ setupRan
    /\ ~isTrain

C9_WitnessNoOptimizers ==
    /\ last.op = "update_learning_rate"
    /\ last.outcome = "IndexError"

\* C5: get_current_losses returns one entry per distinct string name n of
\* loss_names, keyed 'Loss_' + n with value float(self.loss_<n>), in order of
\* first occurrence; get_current_visuals returns one entry per distinct string
\* name n of visual_names, keyed n with value self.<n>; non-string entries are
\* skipped and neither call changes the model.
C5_First(names) ==
    {i \in 1..Len(names) :
        IsStr(names[i]) /\ \A j \in 1..(i - 1) : names[j] # names[i]}

C5_Rank(names, i) == Cardinality({j \in C5_First(names) : j < i}) + 1

C5_Reporting ==
    [][/\ Step("get_current_losses") =>
              /\ Len(last'.result) = Cardinality(C5_First(loss_names))
              /\ \A i \in C5_First(loss_names) :
                    LET e == last'.result[C5_Rank(loss_names, i)]
                    IN  /\ e.key = "Loss_" \o loss_names[i].val
                        /\ e.value = [kind |-> "float",
                                      v |-> attrs["loss_" \o loss_names[i].val].v]
              /\ UNCHANGED <<attrs, loss_names, visual_names, nets, optimizers, opt>>
       /\ Step("get_current_visuals") =>
              /\ Len(last'.result) = Cardinality(C5_First(visual_names))
              /\ \A i \in C5_First(visual_names) :
                    LET e == last'.result[C5_Rank(visual_names, i)]
                    IN  /\ e.key = visual_names[i].val
                        /\ e.value = attrs[visual_names[i].val]
              /\ UNCHANGED <<attrs, loss_names, visual_names, nets, optimizers, opt>>
    ]_vars

C5_Witness ==
    /\ last.op = "get_current_losses"
    /\ loss_names = <<Str("D"), Str("D")>>
    /\ Len(last.result) = 1
    /\ last.result[1].value.v = 1

\* what the claims call the file of a network / the optimizer file / the
\* options file of a label
C_NetPath(e, n) == save_dir \o "/" \o e \o "_net_" \o n \o ".pth"
C_OptsPath(e) == save_dir \o "/" \o e \o "_opts.pth"
C_InfoPath(e) == save_dir \o "/" \o e \o ".info"

\* C2 as stated: after save_networks(E), arbitrary changes and then
\* load_networks(E), every network named by a string entry of model_names has
\* exactly the parameter values it had at save time, and every optimizer the
\* state it had at save time.  (Stated for the case most favourable to it:
\* the instance that saved does the loading, and no state dict was saved with
\* the 'module.' prefix.)
C2_Original ==
    (/\ last.op = "load_networks"
     /\ last.outcome = "ok"
     /\ snap[last.args.epoch] # None
     /\ runs = 1
     /\ \A n \in NetNames : snap[last.args.epoch][1].plain[n]) =>
        LET s == snap[last.args.epoch][1]
        IN  /\ \A n \in StrNames(model_names) : nets[n].params = s.params[n]
            /\ optimizers = s.optimizers

\* C2 amended: after save_networks(E), arbitrary changes and a load_networks(E)
\* that returns normally, every network named by a string entry of both the
\* saved model_names and the loading model's load_model_names has, for each
\* parameter key its unwrapped state dict shares with the saved file, the
\* value it had at save time; every optimizer that has a counterpart at its
\* position in the saved list has the state it had at save time.
C2_Amended ==
    (/\ last.op = "load_networks"
     /\ last.outcome = "ok"
     /\ snap[last.args.epoch] # None) =>
        LET s == snap[last.args.epoch][1]
        IN  /\ \A n \in StrNames(load_model_names.val) \cap s.names :
                  \A k \in DOMAIN nets[n].params :
                      (s.plain[n] /\ k \in DOMAIN s.params[n]) =>
                          nets[n].params[k] = s.params[n][k]
            /\ \A j \in 1..Len(optimizers) :
                  j <= Len(s.optimizers) => optimizers[j] = s.optimizers[j]

C2_Witness ==
    /\ last.op = "load_networks"
    /\ last.outcome = "ok"
    /\ last.result.changed
    /\ snap[last.args.epoch] # None
    /\ runs = 1
    /\ Len(optimizers) = 2
    /\ StrNames(load_model_names.val) = {"G", "D"}
    /\ snap[last.args.epoch][1].names = {"G", "D"}
    /\ snap[last.args.epoch][1].plain["G"]
    /\ nets["G"].params = snap[last.args.epoch][1].params["G"]

\* the networks a load_networks call got to: all string entries when it
\* returned, those before the failing entry when a network file was missing
C_Loaded(c, names) ==
    IF c.outcome = "ok" THEN StrNames(names)
    ELSE IF c.failedAt > 0 THEN StrNames(SubSeq(names, 1, c.failedAt - 1))
    ELSE {}

\* C7: load_networks loads key by key: for each loaded network and each key k
\* of its (unwrapped) state dict, the value after the call is the checkpoint's
\* when the file has k and is unchanged otherwise; keys only the file has are
\* ignored, add no entry and raise no error.
C7_PartialLoad ==
    [][(Step("load_networks") /\ load_model_names.set
            /\ C_OptsPath(last'.args.epoch) \in DOMAIN files) =>
        \A n \in C_Loaded(last', load_model_names.val) :
            LET f == files[C_NetPath(last'.args.epoch, n)]
            IN  /\ DOMAIN nets'[n].params = DOMAIN nets[n].params
                /\ \A k \in DOMAIN nets[n].params :
                      nets'[n].params[k] =
                          IF k \in DOMAIN f THEN f[k] ELSE nets[n].params[k]
    ]_vars

C7_Witness ==
    /\ last.op = "load_networks"
    /\ last.outcome = "ok"
    /\ last.result.changed
    /\ "G" \in StrNames(load_model_names.val)
    /\ LET f == files[C_NetPath(last.args.epoch, "G")]
       IN  /\ DOMAIN f = {"w", "b"}
           /\ DOMAIN nets["G"].params = {"w", "c"}
           /\ nets["G"].params["w"] = f["w"]
           /\ nets["G"].params["c"] # f["b"]

\* the first string entry of load_model_names whose file is missing (0: none)
C8_FirstMissing(e) ==
    LET names == load_model_names.val
        M == {i \in 1..Len(names) :
                IsStr(names[i]) /\ C_NetPath(e, names[i].val) \notin DOMAIN files}
    IN  IF M = {} THEN 0 ELSE CHOOSE i \in M : \A j \in M : i <= j

\* what C8 says of everything but the optimizers
C8_Rest(e) ==
    /\ C_OptsPath(e) \notin DOMAIN files =>
          /\ last'.outcome = "FileNotFoundError"
          /\ UNCHANGED <<optimizers, nets, opt>>
    /\ (C_OptsPath(e) \in DOMAIN files /\ load_model_names.set) =>
          LET i == C8_FirstMissing(e)
              before == IF i > 0 THEN StrNames(SubSeq(load_model_names.val, 1, i - 1))
                        ELSE StrNames(load_model_names.val)
          IN  /\ last'.outcome = IF i > 0 THEN "FileNotFoundError" ELSE "ok"
              /\ last'.failedAt = i
              /\ \A n \in NetNames \ before : nets'[n] = nets[n]
              /\ \A n \in before :
                    LET f == files[C_NetPath(e, n)]
                    IN  nets'[n].params =
                            [k \in DOMAIN nets[n].params |->
                                IF k \in DOMAIN f THEN f[k] ELSE nets[n].params[k]]
              /\ i > 0 => opt' = opt
              /\ (i = 0 /\ C_InfoPath(e) \notin DOMAIN files) => opt' = opt
              /\ (i = 0 /\ C_InfoPath(e) \in DOMAIN files) =>
                    LET d == files[C_InfoPath(e)]
                    IN  /\ DOMAIN opt' = (DOMAIN opt) \cup (DOMAIN d)
                        /\ \A k \in DOMAIN d : opt'[k] = d[k]
                        /\ \A k \in (DOMAIN opt) \ (DOMAIN d) : opt'[k] = opt[k]

\* C8 as stated: load_networks loads the optimizers, then the networks in
\* load_model_names order, then the options of '<epoch>.info'; a missing
\* optimizer file fails the call with nothing changed; a missing file of the
\* i-th network fails it with all optimizers and the networks before i
\* overwritten and the rest, self.opt included, unchanged; a missing info
\* file is no error, a present one sets every key of it on self.opt.
C8_Original ==
    [][Step("load_networks") =>
        LET e == last'.args.epoch
        IN  /\ C8_Rest(e)
            /\ (C_OptsPath(e) \in DOMAIN files /\ load_model_names.set
                    /\ C8_FirstMissing(e) > 0) =>
                  /\ Len(files[C_OptsPath(e)]) >= Len(optimizers)
                  /\ \A j \in 1..Len(optimizers) :
                        optimizers'[j] = files[C_OptsPath(e)][j]
    ]_vars

\* C8 amended: as stated, except that when the file of the i-th network is
\* missing the optimizers overwritten are those that have a counterpart at
\* their position in the saved list (the two lists are zipped); an optimizer
\* beyond the length of the saved list keeps its state.
C8_Amended ==
    [][Step("load_networks") =>
        LET e == last'.args.epoch
        IN  /\ C8_Rest(e)
            /\ (C_OptsPath(e) \in DOMAIN files /\ load_model_names.set
                    /\ C8_FirstMissing(e) > 0) =>
                  /\ Len(optimizers') = Len(optimizers)
                  /\ \A j \in 1..Len(optimizers) :
                        optimizers'[j] =
                            IF j <= Len(files[C_OptsPath(e)])
                            THEN files[C_OptsPath(e)][j] ELSE optimizers[j]
    ]_vars

C8_Witness ==
    /\ last.op = "load_networks"
    /\ last.outcome = "FileNotFoundError"
    /\ last.failedAt = 2
    /\ last.result.changed
    /\ Len(optimizers) = 2
    /\ optimizers = files[C_OptsPath(last.args.epoch)]

C8_WitnessInfo ==
    /\ last.op = "load_networks"
    /\ last.outcome = "ok"
    /\ DOMAIN opt = {"lr_policy", "niter"}
    /\ opt.lr_policy = "plateau"
====
